---- MODULE Spec2Model ----
(***************************************************************************)
(* A model of the executable snippets of the CppGuide chapters:            *)
(*   22-Smart_Pointers.cpp  SmartPointer<T>, std::unique_ptr,              *)
(*                          std::shared_ptr, mySwapCopy, mySwapMove        *)
(*   8-Randomness.cpp       getRandNum                                     *)
(*   13-Enumerators.cpp     directionToString                              *)
(*   3-Functions.cpp        addOne                                         *)
(* The snippets are independent programs: the SmartPointer, unique_ptr,    *)
(* shared_ptr, swap and getRandNum snippets each have a specification of   *)
(* their own, and one caller exercises addOne and directionToString. The   *)
(* variables of the snippets a specification does not run stay idle.       *)
(***************************************************************************)
EXTENDS Integers, Sequences, FiniteSets, TLC

\* Bounds of the model.
MaxHandles == 3      \* smart-pointer objects constructed in one run
MaxObjs == 2         \* objects allocated with new / make_unique in one run

VARIABLES
    heap,        \* 22: the dynamically allocated objects
    handles,     \* 22: the smart-pointer objects, in order of construction
    ctrl,        \* 22: std::shared_ptr control blocks (owner counts)
    exit,        \* 22: how the enclosing function is being left
    status,      \* 22: "running", "corrupt" (went on after UB) or "crashed"
    sw,          \* 22: the objects, references and locals of mySwapCopy/Move
    rnd,         \* 8: the arguments, the draw and the locals of getRandNum
    fn           \* 3, 13: the caller's variables and the callee's parameters

vars == <<heap, handles, ctrl, exit, status, sw, rnd, fn>>

\* The variables of the other chapters, idle while chapter 22's pointers run.
SwIdle == [pc |-> "off"]
RndIdle == [pc |-> "off"]
FnIdle == [pc |-> "off"]

(***************************************************************************)
(* Chapter 22: smart pointers                                              *)
(***************************************************************************)
Objs == 1..MaxObjs
Hs == 1..MaxHandles
nullptr == 0

\* An object of the free store: its state, how many times delete ran on it,
\* which expression created it, and whether a raw pointer variable (x, y, a,
\* b of the chapter) still names it.
NoObj == [state |-> "unalloc", dels |-> 0, origin |-> "none", raw |-> FALSE,
          manual |-> FALSE]

NoHandle == [kind |-> "none", st |-> "unused", ptr |-> nullptr, cb |-> 0,
             from |-> "none", copied |-> FALSE, moved |-> FALSE,
             how |-> "none"]

\* A control block: the resource, the number of owners, and whether it has
\* ever had more than one.
NoCtrl == [obj |-> nullptr, count |-> 0, shared |-> FALSE]

\* No object allocated, no smart pointer defined.
PtrStart ==
    /\ heap = [o \in Objs |-> NoObj]
    /\ handles = [h \in Hs |-> NoHandle]
    /\ ctrl = [c \in Hs |-> NoCtrl]
    /\ exit = "none"
    /\ status = "running"

InitPtr ==
    /\ PtrStart
    /\ sw = SwIdle /\ rnd = RndIdle /\ fn = FnIdle

\* new T(): the next object of the free store (an object is never reused).
CanNew == \E o \in Objs : heap[o].state = "unalloc"
NewObj == CHOOSE o \in Objs :
              /\ heap[o].state = "unalloc"
              /\ \A p \in Objs : p < o => heap[p].state # "unalloc"

\* The next smart-pointer variable to be defined.
CanDeclare == \E h \in Hs : handles[h].st = "unused"
NextH == CHOOSE h \in Hs :
              /\ handles[h].st = "unused"
              /\ \A g \in Hs : g < h => handles[g].st # "unused"

InScope(h) == handles[h].st = "inscope"

\* The variable defined last among those in scope: the next one destroyed.
HasTop == \E h \in Hs : InScope(h)
Top == CHOOSE h \in Hs : InScope(h) /\ \A g \in Hs : InScope(g) => g <= h

Running == status # "crashed" /\ exit = "none"

Allocate(hp, o, org, named) ==
    [hp EXCEPT ![o] = [state |-> "live", dels |-> 0, origin |-> org,
                       raw |-> named, manual |-> FALSE]]

\* delete p: deleting nullptr does nothing; otherwise the object is freed.
DeleteObj(hp, p) ==
    IF p = nullptr THEN hp
    ELSE [hp EXCEPT ![p].state = "freed", ![p].dels = @ + 1]

\* delete on an object that is already freed is undefined behaviour: the
\* program may crash there or run on with a corrupted free store.
AfterDelete(hp, p) ==
    IF p # nullptr /\ hp[p].state = "freed"
    THEN {"corrupt", "crashed"}
    ELSE {status}

\* T* x = new T();  (x, y, a, b)
NewRaw ==
    /\ Running /\ CanNew
    /\ heap' = Allocate(heap, NewObj, "new", TRUE)
    /\ UNCHANGED <<handles, ctrl, exit, status>>
    /\ UNCHANGED <<sw, rnd, fn>>

\* SmartPointer(T* ptr = nullptr) { this->ptr = ptr; }
SmartPointerCtorBody(h, p, src) ==
    [handles EXCEPT ![h] = [kind |-> "SmartPointer", st |-> "inscope",
                            ptr |-> p, cb |-> 0, from |-> src,
                            copied |-> FALSE, moved |-> FALSE,
                            how |-> "none"]]

\* SmartPointer ptr1( new SomeClass() );
SmartPointerCtor ==
    /\ Running /\ CanNew /\ CanDeclare
    /\ heap' = Allocate(heap, NewObj, "new", FALSE)
    /\ handles' = SmartPointerCtorBody(NextH, NewObj, "new")
    /\ UNCHANGED <<ctrl, exit, status>>
    /\ UNCHANGED <<sw, rnd, fn>>

\* SmartPointer<T> p;   (the constructor's default argument)
SmartPointerDefault ==
    /\ Running /\ CanDeclare
    /\ handles' = SmartPointerCtorBody(NextH, nullptr, "default")
    /\ UNCHANGED <<heap, ctrl, exit, status>>
    /\ UNCHANGED <<sw, rnd, fn>>

\* A copy constructor that transfers the pointer instead of copying it.
SmartPointerCopyMoves(h, i) ==
    [handles EXCEPT ![h] = [kind |-> "SmartPointer", st |-> "inscope",
                            ptr |-> handles[i].ptr, cb |-> 0, from |-> "copy",
                            copied |-> FALSE, moved |-> FALSE,
                            how |-> "none"],
                    ![i].ptr = nullptr,
                    ![i].copied = TRUE]

\* SmartPointer ptr2 = ptr1;  the implicit copy constructor copies the member.
SmartPointerCopyBody(h, i) ==
    [handles EXCEPT ![h] = [kind |-> "SmartPointer", st |-> "inscope",
                            ptr |-> handles[i].ptr, cb |-> 0, from |-> "copy",
                            copied |-> FALSE, moved |-> FALSE,
                            how |-> "none"],
                    ![i].copied = TRUE]

SmartPointerCopy(i) ==
    /\ Running /\ CanDeclare
    /\ InScope(i) /\ handles[i].kind = "SmartPointer"
    /\ handles' = SmartPointerCopyBody(NextH, i)
    /\ UNCHANGED <<heap, ctrl, exit, status>>
    /\ UNCHANGED <<sw, rnd, fn>>

\* A destructor that forgets the delete.
SmartPointerDtorLeaks(hp, h) == hp

\* ~SmartPointer() { delete ptr; }
SmartPointerDtor(hp, h) == DeleteObj(hp, handles[h].ptr)

\* std::unique_ptr<T> p(q): the unique_ptr stores q.
UniqueCtorBody(h, p, src) ==
    [handles EXCEPT ![h] = [kind |-> "unique_ptr", st |-> "inscope",
                            ptr |-> p, cb |-> 0, from |-> src,
                            copied |-> FALSE, moved |-> FALSE,
                            how |-> "none"]]

\* std::unique_ptr<SomeClass> uniquePtr( new SomeClass() );
UniqueCtorNew ==
    /\ Running /\ CanNew /\ CanDeclare
    /\ heap' = Allocate(heap, NewObj, "new", FALSE)
    /\ handles' = UniqueCtorBody(NextH, NewObj, "new")
    /\ UNCHANGED <<ctrl, exit, status>>
    /\ UNCHANGED <<sw, rnd, fn>>

\* auto frac = std::make_unique<Fraction>(3, 5);
MakeUnique ==
    /\ Running /\ CanNew /\ CanDeclare
    /\ heap' = Allocate(heap, NewObj, "make_unique", FALSE)
    /\ handles' = UniqueCtorBody(NextH, NewObj, "make_unique")
    /\ UNCHANGED <<ctrl, exit, status>>
    /\ UNCHANGED <<sw, rnd, fn>>

\* std::unique_ptr<SomeClass> x1(x);  std::unique_ptr<SomeClass> x2(x);
UniqueFromRaw(o) ==
    /\ Running /\ CanDeclare
    /\ heap[o].raw
    /\ handles' = UniqueCtorBody(NextH, o, "raw")
    /\ UNCHANGED <<heap, ctrl, exit, status>>
    /\ UNCHANGED <<sw, rnd, fn>>

\* delete y;
ManualDelete(o) ==
    /\ Running
    /\ heap[o].raw /\ ~heap[o].manual
    /\ heap' = [DeleteObj(heap, o) EXCEPT ![o].manual = TRUE]
    /\ status' \in AfterDelete(heap, o)
    /\ UNCHANGED <<handles, ctrl, exit>>
    /\ UNCHANGED <<sw, rnd, fn>>

\* A move that leaves the source managing the resource.
UniqueMoveKeepsSource(h, i) ==
    [handles EXCEPT ![h] = [kind |-> "unique_ptr", st |-> "inscope",
                            ptr |-> handles[i].ptr, cb |-> 0, from |-> "move",
                            copied |-> FALSE, moved |-> FALSE,
                            how |-> "none"],
                    ![i].moved = TRUE]

\* std::unique_ptr<T> q( std::move(p) ): q takes p's pointer, p is left empty.
UniqueMoveBody(h, i) ==
    [handles EXCEPT ![h] = [kind |-> "unique_ptr", st |-> "inscope",
                            ptr |-> handles[i].ptr, cb |-> 0, from |-> "move",
                            copied |-> FALSE, moved |-> FALSE,
                            how |-> "none"],
                    ![i].ptr = nullptr,
                    ![i].moved = TRUE]

UniqueMove(i) ==
    /\ Running /\ CanDeclare
    /\ InScope(i) /\ handles[i].kind = "unique_ptr"
    /\ handles' = UniqueMoveBody(NextH, i)
    /\ UNCHANGED <<heap, ctrl, exit, status>>
    /\ UNCHANGED <<sw, rnd, fn>>

\* uniquePtr.get()
Get(i) == handles[i].ptr

\* the cast to bool of `if (uniquePtr)`
OperatorBool(i) == handles[i].ptr # nullptr

\* ~unique_ptr(): deletes the managed object, if any.
UniqueDtor(hp, h) == DeleteObj(hp, handles[h].ptr)

\* A constructor that finds the control block another shared_ptr made for o.
SharedCtorRawJoins(h, o) ==
    [handles EXCEPT ![h] = [kind |-> "shared_ptr", st |-> "inscope",
                            ptr |-> o,
                            cb |-> IF \E c \in Hs : ctrl[c].obj = o
                                   THEN CHOOSE c \in Hs : ctrl[c].obj = o
                                   ELSE h,
                            from |-> "raw",
                            copied |-> FALSE, moved |-> FALSE,
                            how |-> "none"]]

\* std::shared_ptr<SomeClass> aPtr1{ a }: a new control block, one owner.
SharedCtorRawBody(h, o) ==
    [handles EXCEPT ![h] = [kind |-> "shared_ptr", st |-> "inscope",
                            ptr |-> o, cb |-> h, from |-> "raw",
                            copied |-> FALSE, moved |-> FALSE,
                            how |-> "none"]]

\* The control block a shared_ptr constructed from raw pointer o uses.
SharedCtorRawCtrl(h, o) ==
    [ctrl EXCEPT ![h] = [obj |-> o, count |-> 1, shared |-> FALSE]]

SharedCtorRaw(o) ==
    /\ Running /\ CanDeclare
    /\ heap[o].raw
    /\ handles' = SharedCtorRawBody(NextH, o)
    /\ ctrl' = SharedCtorRawCtrl(NextH, o)
    /\ UNCHANGED <<heap, exit, status>>
    /\ UNCHANGED <<sw, rnd, fn>>

\* SomeClass* a = new SomeClass{};  std::shared_ptr<SomeClass> aPtr1{ a };
SharedCtorNew ==
    /\ Running /\ CanNew /\ CanDeclare
    /\ heap' = Allocate(heap, NewObj, "new", TRUE)
    /\ handles' = SharedCtorRawBody(NextH, NewObj)
    /\ ctrl' = SharedCtorRawCtrl(NextH, NewObj)
    /\ UNCHANGED <<exit, status>>
    /\ UNCHANGED <<sw, rnd, fn>>

\* std::shared_ptr<SomeClass> p;   (a null shared_ptr)
SharedNull ==
    /\ Running /\ CanDeclare
    /\ handles' = [handles EXCEPT ![NextH] =
                       [kind |-> "shared_ptr", st |-> "inscope",
                        ptr |-> nullptr, cb |-> 0, from |-> "default",
                        copied |-> FALSE, moved |-> FALSE, how |-> "none"]]
    /\ UNCHANGED <<heap, ctrl, exit, status>>
    /\ UNCHANGED <<sw, rnd, fn>>

\* A copy that does not count the new owner.
CtrlAcquireForgets(ct, c) == ct

\* One more owner of control block c.
CtrlAcquire(ct, c) ==
    IF c = 0 THEN ct
    ELSE [ct EXCEPT ![c].count = @ + 1, ![c].shared = TRUE]

\* One owner less of control block c.
CtrlRelease(ct, c) == IF c = 0 THEN ct ELSE [ct EXCEPT ![c].count = @ - 1]

\* The last owner of control block c deletes the resource.
HeapRelease(hp, ct, c) ==
    IF c # 0 /\ ct[c].count = 1 THEN DeleteObj(hp, ct[c].obj) ELSE hp

StatusRelease(hp, ct, c) ==
    IF c # 0 /\ ct[c].count = 1 THEN AfterDelete(hp, ct[c].obj) ELSE {status}

\* std::shared_ptr<SomeClass> aPtr2{ aPtr1 }: the copy shares the control block.
SharedCopy(i) ==
    /\ Running /\ CanDeclare
    /\ InScope(i) /\ handles[i].kind = "shared_ptr"
    /\ handles' = [handles EXCEPT ![NextH] =
                       [kind |-> "shared_ptr", st |-> "inscope",
                        ptr |-> handles[i].ptr, cb |-> handles[i].cb,
                        from |-> "copy", copied |-> FALSE, moved |-> FALSE,
                        how |-> "none"]]
    /\ ctrl' = CtrlAcquire(ctrl, handles[i].cb)
    /\ UNCHANGED <<heap, exit, status>>
    /\ UNCHANGED <<sw, rnd, fn>>

\* p = q: p is reassigned to point at what q points at.
SharedAssign(i, j) ==
    /\ Running
    /\ i # j
    /\ InScope(i) /\ handles[i].kind = "shared_ptr"
    /\ InScope(j) /\ handles[j].kind = "shared_ptr"
    /\ handles[i].cb # handles[j].cb
    /\ handles' = [handles EXCEPT ![i].ptr = handles[j].ptr,
                                  ![i].cb = handles[j].cb,
                                  ![i].from = "copy"]
    /\ ctrl' = CtrlRelease(CtrlAcquire(ctrl, handles[j].cb), handles[i].cb)
    /\ heap' = HeapRelease(heap, ctrl, handles[i].cb)
    /\ status' \in StatusRelease(heap, ctrl, handles[i].cb)
    /\ UNCHANGED exit
    /\ UNCHANGED <<sw, rnd, fn>>

\* The function is left by an early return / by a thrown exception: every
\* variable in scope is then destroyed, the one defined last first.
Return ==
    /\ Running /\ HasTop
    /\ exit' = "return"
    /\ UNCHANGED <<heap, handles, ctrl, status>>
    /\ UNCHANGED <<sw, rnd, fn>>

Throw ==
    /\ Running /\ HasTop
    /\ exit' = "throw"
    /\ UNCHANGED <<heap, handles, ctrl, status>>
    /\ UNCHANGED <<sw, rnd, fn>>

\* How the variable being destroyed left its scope.
Leaving == IF exit = "none" THEN "end" ELSE exit

\* A destroyed SmartPointer: its member keeps the (now dangling) pointer.
Gone(h) == [handles EXCEPT ![h].st = "destroyed", ![h].how = Leaving]

\* A destroyed std::unique_ptr or std::shared_ptr.
GoneStd(h) ==
    [handles EXCEPT ![h] = [NoHandle EXCEPT !.kind = handles[h].kind,
                                            !.st = "destroyed",
                                            !.how = Leaving]]

\* The variable defined last goes out of scope: its destructor runs.
DestroySmartPointer ==
    /\ status # "crashed" /\ HasTop
    /\ handles[Top].kind = "SmartPointer"
    /\ heap' = SmartPointerDtor(heap, Top)
    /\ status' \in AfterDelete(heap, handles[Top].ptr)
    /\ handles' = Gone(Top)
    /\ UNCHANGED <<ctrl, exit>>
    /\ UNCHANGED <<sw, rnd, fn>>

DestroyUnique ==
    /\ status # "crashed" /\ HasTop
    /\ handles[Top].kind = "unique_ptr"
    /\ heap' = UniqueDtor(heap, Top)
    /\ status' \in AfterDelete(heap, handles[Top].ptr)
    /\ handles' = GoneStd(Top)
    /\ UNCHANGED <<ctrl, exit>>
    /\ UNCHANGED <<sw, rnd, fn>>

DestroyShared ==
    /\ status # "crashed" /\ HasTop
    /\ handles[Top].kind = "shared_ptr"
    /\ heap' = HeapRelease(heap, ctrl, handles[Top].cb)
    /\ status' \in StatusRelease(heap, ctrl, handles[Top].cb)
    /\ ctrl' = CtrlRelease(ctrl, handles[Top].cb)
    /\ handles' = GoneStd(Top)
    /\ UNCHANGED exit
    /\ UNCHANGED <<sw, rnd, fn>>

\* The SmartPointer<T> snippets (lines 20-46).
NextSmart ==
    \/ SmartPointerCtor
    \/ SmartPointerDefault
    \/ \E i \in Hs : SmartPointerCopy(i)
    \/ Return
    \/ Throw
    \/ DestroySmartPointer

SpecSmart == InitPtr /\ [][NextSmart]_vars

\* The std::unique_ptr snippets (lines 173-237).
NextUnique ==
    \/ NewRaw
    \/ UniqueCtorNew
    \/ MakeUnique
    \/ \E o \in Objs : UniqueFromRaw(o)
    \/ \E o \in Objs : ManualDelete(o)
    \/ \E i \in Hs : UniqueMove(i)
    \/ DestroyUnique

SpecUnique == InitPtr /\ [][NextUnique]_vars

\* The std::shared_ptr snippets (lines 243-271).
NextShared ==
    \/ SharedCtorNew
    \/ \E o \in Objs : SharedCtorRaw(o)
    \/ SharedNull
    \/ \E i \in Hs : SharedCopy(i)
    \/ \E i, j \in Hs : SharedAssign(i, j)
    \/ DestroyShared

SpecShared == InitPtr /\ [][NextShared]_vars

(***************************************************************************)
(* Chapter 22: the properties                                              *)
(***************************************************************************)
\* A SmartPointer constructed from a new-expression and never copied.
Sole(h) ==
    /\ handles[h].kind = "SmartPointer"
    /\ handles[h].from = "new"
    /\ ~handles[h].copied

\* C1: the object owned by a SmartPointer that was constructed from a freshly
\* allocated pointer and never copied is alive and undeleted as long as the
\* SmartPointer is in scope, and has been deleted exactly once as soon as the
\* SmartPointer is out of scope, whether the scope ended normally, by an early
\* return or by a thrown exception.
C1_DeletedOnceAtScopeExit ==
    \A h \in Hs : Sole(h) =>
        /\ InScope(h) =>
              /\ heap[handles[h].ptr].state = "live"
              /\ heap[handles[h].ptr].dels = 0
        /\ handles[h].st = "destroyed" =>
              /\ handles[h].how \in {"end", "return", "throw"}
              /\ heap[handles[h].ptr].state = "freed"
              /\ heap[handles[h].ptr].dels = 1

\* A never-copied SmartPointer was destroyed by an exception leaving the
\* function, another by the normal end of its block.
C1_Witness ==
    \E h, g \in Hs :
        /\ Sole(h) /\ Sole(g)
        /\ handles[h].st = "destroyed" /\ handles[h].how = "throw"
        /\ handles[g].st = "destroyed" /\ handles[g].how = "end"
        /\ heap[handles[h].ptr].dels = 1
        /\ heap[handles[g].ptr].dels = 1

\* The SmartPointer objects, in scope or destroyed, whose member is o.
SmartHolders(o) ==
    {h \in Hs : handles[h].kind = "SmartPointer" /\ handles[h].ptr = o}

SmartDestroyed(o) == {h \in SmartHolders(o) : handles[h].st = "destroyed"}

\* C2: a SmartPointer made by copying holds the same raw pointer as its
\* source; delete runs on the object once per destroyed holder, so the first
\* holder to go out of scope frees the object and every later one deletes the
\* already deleted object (undefined behaviour has then happened).
C2_CopyDoubleDelete ==
    /\ \A g \in Hs :
          (handles[g].kind = "SmartPointer" /\ handles[g].from = "copy") =>
              \E i \in Hs :
                  /\ i # g
                  /\ handles[i].kind = "SmartPointer"
                  /\ handles[i].copied
                  /\ handles[i].ptr = handles[g].ptr
    /\ \A o \in Objs :
          /\ heap[o].dels = Cardinality(SmartDestroyed(o))
          /\ Cardinality(SmartDestroyed(o)) >= 1 => heap[o].state = "freed"
          /\ Cardinality(SmartDestroyed(o)) >= 2 =>
                status \in {"corrupt", "crashed"}

\* ptr1 and its copy ptr2 have both gone out of scope: delete ran twice.
C2_Witness ==
    \E h, g \in Hs :
        /\ h # g
        /\ handles[h].kind = "SmartPointer" /\ handles[h].copied
        /\ handles[g].kind = "SmartPointer" /\ handles[g].from = "copy"
        /\ handles[h].ptr = handles[g].ptr /\ handles[h].ptr # nullptr
        /\ handles[h].st = "destroyed" /\ handles[g].st = "destroyed"
        /\ heap[handles[h].ptr].dels = 2

\* The shared_ptr objects in scope that use control block c.
Owners(c) ==
    {h \in Hs : /\ InScope(h)
                /\ handles[h].kind = "shared_ptr"
                /\ handles[h].cb = c}

\* The control blocks made for resource o.
Blocks(o) == {c \in Hs : ctrl[c].obj = o}

\* C3: for shared_ptr objects that co-own a resource through one control
\* block (every owner but the first a copy of an existing one), the count is
\* the number of owners in scope, the resource is allocated and undeleted
\* while there is an owner, and it has been deleted exactly once when there is
\* none any more (the last one went out of scope or was reassigned).
C3_SharedLastOwnerFrees ==
    \A o \in Objs : \A c \in Blocks(o) :
        /\ ctrl[c].count = Cardinality(Owners(c))
        /\ \A h \in Owners(c) : handles[h].ptr = o
        /\ Blocks(o) = {c} =>
              IF Owners(c) # {}
              THEN heap[o].state = "live" /\ heap[o].dels = 0
              ELSE heap[o].state = "freed" /\ heap[o].dels = 1

\* A resource that had two co-owners has lost both and is deallocated once,
\* while another resource still has its owner.
C3_Witness ==
    \E o, q \in Objs : \E c, d \in Hs :
        /\ Blocks(o) = {c} /\ ctrl[c].shared /\ ctrl[c].count = 0
        /\ heap[o].state = "freed" /\ heap[o].dels = 1
        /\ Blocks(q) = {d} /\ ctrl[d].count = 1 /\ heap[q].state = "live"

\* C4: a shared_ptr constructed from a raw pointer has a control block of its
\* own, counting only itself and its copies; delete runs on the resource once
\* per control block whose count dropped to zero, so with two shared_ptr made
\* independently from the same raw pointer the resource is deallocated when
\* the one defined last goes out of scope and deleted a second time when the
\* other goes.
C4_IndependentDoubleDelete ==
    /\ \A h \in Hs :
          (InScope(h) /\ handles[h].kind = "shared_ptr"
                      /\ handles[h].from = "raw") =>
              /\ handles[h].cb = h
              /\ ctrl[h].obj = handles[h].ptr
              /\ ctrl[h].count = Cardinality(Owners(h))
    /\ \A o \in Objs :
          /\ heap[o].dels = Cardinality({c \in Blocks(o) : ctrl[c].count = 0})
          /\ heap[o].dels >= 1 => heap[o].state = "freed"
          /\ heap[o].dels >= 2 => status \in {"corrupt", "crashed"}

\* bPtr1{b} and bPtr2{b}, never copied, have both gone out of scope.
C4_Witness ==
    \E o \in Objs : \E c, d \in Blocks(o) :
        /\ c < d
        /\ ~ctrl[c].shared /\ ctrl[c].count = 0
        /\ ~ctrl[d].shared /\ ctrl[d].count = 0
        /\ heap[o].dels = 2

\* The unique_ptr objects in scope that manage o.
Managers(o) ==
    {h \in Hs : /\ InScope(h)
                /\ handles[h].kind = "unique_ptr"
                /\ handles[h].ptr = o}

\* C5: a resource created with std::make_unique is managed by at most one
\* unique_ptr; its manager is the one make_unique returned or one that got it
\* by a move; a moved-from unique_ptr manages nothing (get() is null, the
\* cast to bool is false); the resource is alive while it has its manager and
\* has been deleted exactly once when the manager is gone.
C5_UniqueSingleOwner ==
    /\ \A o \in Objs : heap[o].origin = "make_unique" =>
          /\ Cardinality(Managers(o)) <= 1
          /\ \A h \in Managers(o) : handles[h].from \in {"make_unique", "move"}
          /\ IF Managers(o) # {}
             THEN heap[o].state = "live" /\ heap[o].dels = 0
             ELSE heap[o].state = "freed" /\ heap[o].dels = 1
    /\ \A h \in Hs :
          (InScope(h) /\ handles[h].kind = "unique_ptr" /\ handles[h].moved) =>
              /\ Get(h) = nullptr
              /\ ~OperatorBool(h)

\* frac was moved to another unique_ptr, which has been destroyed, while the
\* moved-from frac is still in scope.
C5_Witness ==
    \E o \in Objs : \E h \in Hs :
        /\ heap[o].origin = "make_unique"
        /\ heap[o].state = "freed" /\ heap[o].dels = 1
        /\ InScope(h) /\ handles[h].kind = "unique_ptr"
        /\ handles[h].from = "make_unique" /\ handles[h].moved

(***************************************************************************)
(* Chapter 22: mySwapCopy and mySwapMove                                   *)
(***************************************************************************)
MaxVal == 2          \* the values of T are 0..MaxVal
MaxCalls == 2        \* swaps called in a row

Values == 0..MaxVal

\* The two objects the caller passes; a and b are references to them (both
\* may name the same object).
Refs == {1, 2}

InitSwap ==
    /\ PtrStart
    /\ rnd = RndIdle /\ fn = FnIdle
    /\ \E v, w \in Values : \E ra, rb \in Refs :
          sw = [pc |-> "main", fn |-> "none", calls |-> 0,
                obj |-> <<v, w>>, orig |-> <<v, w>>, pre |-> <<v, w>>,
                a |-> ra, b |-> rb, temp |-> "none"]

\* mySwapCopy(a, b); or mySwapMove(a, b);
SwapCall(f) ==
    /\ sw.pc = "main"
    /\ sw.calls < MaxCalls
    /\ sw' = [sw EXCEPT !.pc = "s1", !.fn = f, !.pre = sw.obj]
    /\ UNCHANGED <<heap, handles, ctrl, exit, status, rnd, fn>>

\* T temp{ a };  invokes copy constructor
SwapCopy1 ==
    /\ sw.pc = "s1" /\ sw.fn = "copy"
    /\ sw' = [sw EXCEPT !.pc = "s2", !.temp = sw.obj[sw.a]]
    /\ UNCHANGED <<heap, handles, ctrl, exit, status, rnd, fn>>

\* a = b;  invokes copy assignment
SwapCopy2 ==
    /\ sw.pc = "s2" /\ sw.fn = "copy"
    /\ sw' = [sw EXCEPT !.pc = "s3", !.obj[sw.a] = sw.obj[sw.b]]
    /\ UNCHANGED <<heap, handles, ctrl, exit, status, rnd, fn>>

\* b = temp;  invokes copy assignment; the function returns
SwapCopy3 ==
    /\ sw.pc = "s3" /\ sw.fn = "copy"
    /\ sw' = [sw EXCEPT !.pc = "main", !.obj[sw.b] = sw.temp,
                        !.temp = "none", !.calls = @ + 1]
    /\ UNCHANGED <<heap, handles, ctrl, exit, status, rnd, fn>>

\* The values a moved-from object may be left with: valid, but indeterminate
\* (for a T without a move constructor, its old value).
MovedFrom == Values

\* T tmp{ std::move(a) };  invokes move constructor
SwapMove1 ==
    /\ sw.pc = "s1" /\ sw.fn = "move"
    /\ \E v \in MovedFrom :
          sw' = [sw EXCEPT !.pc = "s2", !.temp = sw.obj[sw.a],
                           !.obj[sw.a] = v]
    /\ UNCHANGED <<heap, handles, ctrl, exit, status, rnd, fn>>

\* a = std::move(b);  invokes move assignment
SwapMove2 ==
    /\ sw.pc = "s2" /\ sw.fn = "move"
    /\ \E v \in MovedFrom :
          sw' = [sw EXCEPT !.pc = "s3",
                           !.obj = [[sw.obj EXCEPT ![sw.a] = sw.obj[sw.b]]
                                       EXCEPT ![sw.b] = v]]
    /\ UNCHANGED <<heap, handles, ctrl, exit, status, rnd, fn>>

\* A third statement that moves from a instead of tmp.
SwapMove3FromA ==
    /\ sw.pc = "s3" /\ sw.fn = "move"
    /\ sw' = [sw EXCEPT !.pc = "main", !.obj[sw.b] = sw.obj[sw.a],
                        !.temp = "none", !.calls = @ + 1]
    /\ UNCHANGED <<heap, handles, ctrl, exit, status, rnd, fn>>

\* b = std::move(tmp);  invokes move assignment; the function returns
SwapMove3 ==
    /\ sw.pc = "s3" /\ sw.fn = "move"
    /\ sw' = [sw EXCEPT !.pc = "main", !.obj[sw.b] = sw.temp,
                        !.temp = "none", !.calls = @ + 1]
    /\ UNCHANGED <<heap, handles, ctrl, exit, status, rnd, fn>>

NextSwap ==
    \/ SwapCall("copy")
    \/ SwapCall("move")
    \/ SwapCopy1
    \/ SwapCopy2
    \/ SwapCopy3
    \/ SwapMove1
    \/ SwapMove2
    \/ SwapMove3

SpecSwap == InitSwap /\ [][NextSwap]_vars

\* The objects with the values of the objects a and b name exchanged.
Exchanged(o) == [[o EXCEPT ![sw.a] = o[sw.b]] EXCEPT ![sw.b] = o[sw.a]]

\* C6: when mySwapCopy or mySwapMove has returned, a holds the value b had
\* before the call and b the value a had (the same final state for both
\* functions); after two calls in a row the original values are back.
C6_SwapsAgree ==
    (sw.pc = "main" /\ sw.calls >= 1) =>
        /\ sw.obj[sw.a] = sw.pre[sw.b]
        /\ sw.obj[sw.b] = sw.pre[sw.a]
        /\ sw.obj = Exchanged(sw.pre)
        /\ sw.calls = 1 => sw.obj = Exchanged(sw.orig)
        /\ sw.calls = 2 => sw.obj = sw.orig

\* Two distinct objects with different values were swapped twice, the second
\* time by mySwapMove, and hold their original values again.
C6_Witness ==
    /\ sw.pc = "main" /\ sw.calls = 2 /\ sw.fn = "move"
    /\ sw.a # sw.b
    /\ sw.orig[sw.a] # sw.orig[sw.b]
    /\ sw.obj = sw.orig

(***************************************************************************)
(* Chapter 8: getRandNum                                                   *)
(***************************************************************************)
IntBits == 4         \* the width of int, scaled down from 32

Pow2(k) == 2 ^ k
IntMin == -Pow2(IntBits - 1)
IntMax == Pow2(IntBits - 1) - 1
Ints == IntMin..IntMax

\* The values std::mt19937 generates: unsigned integers of int's width.
MtValues == 0..(Pow2(IntBits) - 1)

\* The width of std::mt19937::result_type (uint_fast32_t): that of int, or
\* twice that (unsigned long of an LP64 build).
ResultBits == {IntBits, 2 * IntBits}

\* The int a wrapped-around signed result, or a converted unsigned one, is.
ToInt(v) == ((v - IntMin) % Pow2(IntBits)) + IntMin

\* The conversion of an int to an unsigned integer of w bits.
ToUnsigned(v, w) == v % Pow2(w)

InitRand ==
    /\ PtrStart
    /\ sw = SwIdle /\ fn = FnIdle
    /\ \E x0, y0 \in Ints : \E m0 \in MtValues : \E w0 \in ResultBits :
          /\ x0 <= y0
          /\ rnd = [pc |-> "sub", x |-> x0, y |-> y0, m |-> m0, w |-> w0,
                    t |-> 0, res |-> 0]

\* y - x, in int: overflow is undefined behaviour (the result wraps around,
\* or the operation traps).
RandSub ==
    /\ rnd.pc = "sub"
    /\ \/ rnd' = [rnd EXCEPT !.pc = "inc", !.t = ToInt(rnd.y - rnd.x)]
       \/ /\ rnd.y - rnd.x \notin Ints
          /\ rnd' = [rnd EXCEPT !.pc = "trap"]
    /\ UNCHANGED <<heap, handles, ctrl, exit, status, sw, fn>>

\* (y - x) + 1, in int
RandInc ==
    /\ rnd.pc = "inc"
    /\ \/ rnd' = [rnd EXCEPT !.pc = "mod", !.t = ToInt(rnd.t + 1)]
       \/ /\ rnd.t + 1 \notin Ints
          /\ rnd' = [rnd EXCEPT !.pc = "trap"]
    /\ UNCHANGED <<heap, handles, ctrl, exit, status, sw, fn>>

\* mt1() % (y - x + 1): the divisor is converted to result_type; a zero
\* divisor is undefined behaviour (a trap, or the dividend comes back).
RandMod ==
    /\ rnd.pc = "mod"
    /\ IF ToUnsigned(rnd.t, rnd.w) = 0
       THEN \/ rnd' = [rnd EXCEPT !.pc = "trap"]
            \/ rnd' = [rnd EXCEPT !.pc = "add", !.t = rnd.m]
       ELSE rnd' = [rnd EXCEPT !.pc = "add",
                               !.t = rnd.m % ToUnsigned(rnd.t, rnd.w)]
    /\ UNCHANGED <<heap, handles, ctrl, exit, status, sw, fn>>

\* ... + x, in result_type: x is converted, the sum is taken modulo 2^w
RandAdd ==
    /\ rnd.pc = "add"
    /\ rnd' = [rnd EXCEPT !.pc = "ret",
                          !.t = (rnd.t + ToUnsigned(rnd.x, rnd.w))
                                    % Pow2(rnd.w)]
    /\ UNCHANGED <<heap, handles, ctrl, exit, status, sw, fn>>

\* return: the sum is converted to int
RandReturn ==
    /\ rnd.pc = "ret"
    /\ rnd' = [rnd EXCEPT !.pc = "done", !.res = ToInt(rnd.t)]
    /\ UNCHANGED <<heap, handles, ctrl, exit, status, sw, fn>>

NextRand ==
    \/ RandSub
    \/ RandInc
    \/ RandMod
    \/ RandAdd
    \/ RandReturn

SpecRand == InitRand /\ [][NextRand]_vars

\* C7: for all ints x <= y and every value mt1() produces, the number
\* getRandNum(x, y) returns lies in x..y.
C7_InRange ==
    rnd.pc = "done" => (rnd.x <= rnd.res /\ rnd.res <= rnd.y)

\* getRandNum returns a number of x..y whenever y - x + 1 is an int, for
\* negative x too.
C7_InRangeNoOverflow ==
    (rnd.pc = "done" /\ rnd.y - rnd.x + 1 \in Ints) =>
        (rnd.x <= rnd.res /\ rnd.res <= rnd.y)

(***************************************************************************)
(* Chapter 3: addOne (pass by value); chapter 13: directionToString.       *)
(* One caller, the variable x of chapter 3 in its scope, calls the two      *)
(* functions any number of times in any order.                              *)
(***************************************************************************)
MaxAddCalls == 3     \* calls of addOne in one run
MaxDir == 5          \* the Direction arguments tried are -MaxDir..MaxDir

\* enum Direction { UP, DOWN, LEFT, RIGHT };
UP == 0
DOWN == 1
LEFT == 2
RIGHT == 3

\* The values a Direction argument is given (those of the enumerators, and
\* other values of the underlying type a cast can put there).
Directions == (-MaxDir)..MaxDir

\* A switch in which LEFT has no case of its own.
directionToStringNoLeft(d) ==
    CASE d = UP -> "Up"
      [] d = DOWN -> "Down"
      [] d = RIGHT -> "Right"
      [] OTHER -> "???"

\* std::string_view directionToString(Direction d)
directionToString(d) ==
    CASE d = UP -> "Up"
      [] d = DOWN -> "Down"
      [] d = LEFT -> "Left"
      [] d = RIGHT -> "Right"
      [] OTHER -> "???"

\* int x = 1; no function has been called yet.
InitCalls ==
    /\ PtrStart
    /\ sw = SwIdle /\ rnd = RndIdle
    /\ fn = [pc |-> "main", x |-> 1, num |-> "none", calls |-> 0,
             d |-> UP, result |-> "", asked |-> FALSE]

\* addOne(x): the value of x is copied into the parameter num.
CallAddOne ==
    /\ fn.pc = "main"
    /\ fn.calls < MaxAddCalls
    /\ fn' = [fn EXCEPT !.pc = "addOne", !.num = fn.x]
    /\ UNCHANGED <<heap, handles, ctrl, exit, status, sw, rnd>>

\* A body that works on the caller's variable (void addOne(int& num)).
AddOneBodyByReference ==
    /\ fn.pc = "addOne"
    /\ fn' = [fn EXCEPT !.pc = "addOneEnd", !.num = fn.num + 1,
                        !.x = fn.x + 1]
    /\ UNCHANGED <<heap, handles, ctrl, exit, status, sw, rnd>>

\* num = num + 1;
AddOneBody ==
    /\ fn.pc = "addOne"
    /\ fn' = [fn EXCEPT !.pc = "addOneEnd", !.num = fn.num + 1]
    /\ UNCHANGED <<heap, handles, ctrl, exit, status, sw, rnd>>

\* addOne returns: its parameter is gone.
AddOneReturn ==
    /\ fn.pc = "addOneEnd"
    /\ fn' = [fn EXCEPT !.pc = "main", !.num = "none", !.calls = @ + 1]
    /\ UNCHANGED <<heap, handles, ctrl, exit, status, sw, rnd>>

\* directionToString(k) is called.
CallDirectionToString(k) ==
    /\ fn.pc = "main"
    /\ fn' = [fn EXCEPT !.pc = "directionToString", !.d = k]
    /\ UNCHANGED <<heap, handles, ctrl, exit, status, sw, rnd>>

\* The switch returns its string to the caller.
DirectionToStringReturn ==
    /\ fn.pc = "directionToString"
    /\ fn' = [fn EXCEPT !.pc = "main", !.result = directionToString(fn.d),
                        !.asked = TRUE]
    /\ UNCHANGED <<heap, handles, ctrl, exit, status, sw, rnd>>

NextCalls ==
    \/ CallAddOne
    \/ AddOneBody
    \/ AddOneReturn
    \/ \E k \in Directions : CallDirectionToString(k)
    \/ DirectionToStringReturn

SpecCalls == InitCalls /\ [][NextCalls]_vars

\* C8: the enumerators are 0, 1, 2, 3; directionToString returns "Up",
\* "Down", "Left", "Right" for them, four distinct strings, and "???" for
\* every other argument.
C8_DirectionStrings ==
    /\ <<UP, DOWN, LEFT, RIGHT>> = <<0, 1, 2, 3>>
    /\ (fn.pc = "main" /\ fn.asked) =>
          /\ fn.d = 0 => fn.result = "Up"
          /\ fn.d = 1 => fn.result = "Down"
          /\ fn.d = 2 => fn.result = "Left"
          /\ fn.d = 3 => fn.result = "Right"
          /\ fn.d \notin 0..3 => fn.result = "???"
          /\ fn.result \in {"Up", "Down", "Left", "Right", "???"}

\* directionToString has returned "???" for a negative argument.
C8_Witness ==
    fn.pc = "main" /\ fn.asked /\ fn.d < 0 /\ fn.result = "???"

\* C9: the caller's x is 1 before, during and after every call of addOne(x);
\* the increment changes only the parameter.
C9_AddOneKeepsX ==
    /\ fn.x = 1
    /\ fn.pc = "addOne" => fn.num = 1
    /\ fn.pc = "addOneEnd" => fn.num = 2

\* addOne(x) has been called and has returned more than once.
C9_Witness ==
    fn.pc = "main" /\ fn.calls >= 2 /\ fn.x = 1

====
